---- MODULE Spec2Model ----
(***************************************************************************)
(* Model of consensus_helper_sc.py: the flag tables, the consensus query   *)
(* name (sscs_qname) and the streaming family accumulator (read_bam).      *)
(*                                                                         *)
(* Python strings are sequences of one-character strings, so that          *)
(* str.format, str.split, str.join, int(), slicing and the "in" substring  *)
(* test are computed character by character as the interpreter does.       *)
(***************************************************************************)
EXTENDS FiniteSets, Integers, Sequences, TLC

\* ---------------------------------------------------------------- bounds
MaxChr == 2
MaxPos == 2
MaxRecords == 4

\* ------------------------------------------------------- string builtins
Digits == <<"0", "1", "2", "3", "4", "5", "6", "7", "8", "9">>

\* '{}'.format(n) of a non-negative integer
RECURSIVE str(_)
str(n) ==
    IF n < 10 THEN <<Digits[n + 1]>>
    ELSE str(n \div 10) \o <<Digits[(n % 10) + 1]>>

DigitVal(c) == (CHOOSE d \in 1..10 : Digits[d] = c) - 1

\* int(s) of a string of decimal digits
RECURSIVE int(_)
int(s) ==
    IF Len(s) = 1 THEN DigitVal(s[1])
    ELSE 10 * int(SubSeq(s, 1, Len(s) - 1)) + DigitVal(s[Len(s)])

\* s.split(sep) for a one-character separator
RECURSIVE split(_, _)
split(s, sep) ==
    IF \E i \in 1..Len(s) : s[i] = sep
    THEN LET i == CHOOSE k \in 1..Len(s) :
                      s[k] = sep /\ \A j \in 1..(k - 1) : s[j] # sep
         IN  <<SubSeq(s, 1, i - 1)>> \o split(SubSeq(s, i + 1, Len(s)), sep)
    ELSE <<s>>

\* sep.join(fields)
RECURSIVE join(_, _)
join(fields, sep) ==
    IF Len(fields) = 0 THEN <<>>
    ELSE IF Len(fields) = 1 THEN fields[1]
    ELSE fields[1] \o <<sep>> \o join(Tail(fields), sep)

\* sub in s
contains(s, sub) ==
    \E i \in 1..(Len(s) - Len(sub) + 1) : SubSeq(s, i, i + Len(sub) - 1) = sub

\* s[:-k]
drop_last(s, k) == SubSeq(s, 1, Len(s) - k)

\* x in lst
in_list(x, lst) == \E i \in 1..Len(lst) : lst[i] = x

\* ------------------------------------------------------------ flag tables
ERROR == "UnboundLocalError"

\* the two translocation rows of the table crossed
flag_pairings_crossed ==
    (99 :> 147) @@ (147 :> 99) @@ (83 :> 163) @@ (163 :> 83) @@
    (67 :> 131) @@ (131 :> 67) @@ (115 :> 179) @@ (179 :> 115) @@
    (81 :> 145) @@ (145 :> 81) @@ (97 :> 161) @@ (161 :> 97) @@
    (65 :> 129) @@ (129 :> 65) @@ (113 :> 177) @@ (177 :> 113)

flag_pairings ==
    (99 :> 147) @@ (147 :> 99) @@ (83 :> 163) @@ (163 :> 83) @@
    (67 :> 131) @@ (131 :> 67) @@ (115 :> 179) @@ (179 :> 115) @@
    (81 :> 161) @@ (161 :> 81) @@ (97 :> 145) @@ (145 :> 97) @@
    (65 :> 129) @@ (129 :> 65) @@ (113 :> 177) @@ (177 :> 113)

pos_flag == <<99, 147, 67, 131, 97, 145, 65, 129>>

read1 == <<99, 83, 67, 115, 81, 97, 65, 113>>
read2 == <<147, 163, 131, 179, 161, 145, 129, 177>>

\* the local "read" is unbound when the flag is in neither list: the
\* return statement raises UnboundLocalError
which_read(flag) ==
    IF in_list(flag, read1) THEN <<"R", "1">>
    ELSE IF in_list(flag, read2) THEN <<"R", "2">>
    ELSE ERROR

ori_pos == <<99, 147, 67, 131, 81, 161, 65, 129>>
ori_neg == <<83, 163, 115, 179, 97, 145, 113, 177>>

which_ori_strand(flag) ==
    IF in_list(flag, ori_pos) THEN "pos"
    ELSE IF in_list(flag, ori_neg) THEN "neg"
    ELSE ERROR

\* --------------------------------------------------------------- sscs_qname
US == "_"
s_pos == <<"_", "p", "o", "s">>
s_neg == <<"_", "n", "e", "g">>

\* the condition under which ref and mate are swapped
swap_cond(ref_chr, ref_coor, mate_chr, mate_coor) ==
    \/ (int(ref_coor) > int(mate_coor) /\ ref_chr = mate_chr)
    \/ (int(ref_chr) > int(mate_chr) /\ ref_chr # mate_coor)

\* strand_tag with the label of a swapped tag taken as for an unswapped one
strand_tag_role_only(tag, flag) ==
    LET f         == split(tag, US)
        ref_chr   == f[2]
        mate_chr  == f[4]
        ref_coor  == f[3]
        mate_coor == f[5]
    IN  IF swap_cond(ref_chr, ref_coor, mate_chr, mate_coor)
        THEN LET new_tag == drop_last(join([f EXCEPT ![2] = mate_chr,
                                                      ![4] = ref_chr,
                                                      ![3] = mate_coor,
                                                      ![5] = ref_coor], US), 7)
             IN  IF contains(tag, <<"R", "1">>) THEN new_tag \o s_pos
                 ELSE new_tag \o s_neg
        ELSE LET consensus_tag == drop_last(tag, 7)
             IN  IF ref_chr = mate_chr /\ ref_coor = mate_coor
                 THEN IF in_list(flag, pos_flag) THEN consensus_tag \o s_pos
                      ELSE consensus_tag \o s_neg
                 ELSE IF contains(tag, <<"R", "1">>) THEN consensus_tag \o s_pos
                 ELSE consensus_tag \o s_neg

\* the tag with coordinates ordered and the strand label appended
strand_tag(tag, flag) ==
    LET f         == split(tag, US)
        ref_chr   == f[2]
        mate_chr  == f[4]
        ref_coor  == f[3]
        mate_coor == f[5]
    IN  IF swap_cond(ref_chr, ref_coor, mate_chr, mate_coor)
        THEN LET new_tag == drop_last(join([f EXCEPT ![2] = mate_chr,
                                                      ![4] = ref_chr,
                                                      ![3] = mate_coor,
                                                      ![5] = ref_coor], US), 7)
             IN  IF contains(tag, <<"R", "1">>) THEN new_tag \o s_neg
                 ELSE new_tag \o s_pos
        ELSE LET consensus_tag == drop_last(tag, 7)
             IN  IF ref_chr = mate_chr /\ ref_coor = mate_coor
                 THEN IF in_list(flag, pos_flag) THEN consensus_tag \o s_pos
                      ELSE consensus_tag \o s_neg
                 ELSE IF contains(tag, <<"R", "1">>) THEN consensus_tag \o s_pos
                 ELSE consensus_tag \o s_neg

\* the flag and its pairing appended in the order given
add_flags_unordered(new_tag, flag) ==
    new_tag \o <<US>> \o str(flag) \o <<US>> \o str(flag_pairings[flag])

\* '{}_{}_{}'.format(new_tag, smaller flag, larger flag)
add_flags(new_tag, flag) ==
    IF flag < flag_pairings[flag]
    THEN new_tag \o <<US>> \o str(flag) \o <<US>> \o str(flag_pairings[flag])
    ELSE new_tag \o <<US>> \o str(flag_pairings[flag]) \o <<US>> \o str(flag)

sscs_qname(tag, flag) == add_flags(strand_tag(tag, flag), flag)

\* ----------------------------------------------------------- AlignedSegment
bit(flag, b) == (flag \div b) % 2 = 1
is_unmapped(line)      == bit(line.flag, 4)
is_reverse(line)       == bit(line.flag, 16)
is_secondary(line)     == bit(line.flag, 256)
is_supplementary(line) == bit(line.flag, 2048)

\* the raw family tag of a read
build_tag(barcode, read, softclip) ==
    LET readNum == which_read(read.flag)
        strand  == IF is_reverse(read) THEN <<"r", "e", "v">>
                   ELSE <<"f", "w", "d">>
    IN  join(<<barcode, str(read.reference_id), str(read.reference_start),
               str(read.next_reference_id), str(read.next_reference_start),
               softclip, strand, readNum>>, US)

\* ------------------------------------------------------------ dictionaries
put(d, k, v) == [x \in DOMAIN d \cup {k} |-> IF x = k THEN v ELSE d[x]]
pop(d, k) == [x \in DOMAIN d \ {k} |-> d[x]]
\* d[k] of a collections.defaultdict
get_default(d, k, default) == IF k \in DOMAIN d THEN d[k] ELSE default

\* ----------------------------------------------------------------- read_bam
bad_flags == <<73, 133, 89, 121, 165, 181, 101, 117, 153, 185, 69, 137, 77, 141>>

\* the counter the filter increments for a line: "none" for a good read and
\* for a read dropped for its missing MD tag
bad_category(line) ==
    IF is_unmapped(line) THEN "unmapped"
    ELSE IF is_secondary(line) THEN "bad_reads"
    ELSE IF is_supplementary(line) THEN "bad_reads"
    ELSE IF in_list(line.flag, bad_flags) THEN "unmapped_flag"
    ELSE "none"

\* the MD tag required in duplex mode too
badRead_always_MD(line, dup) ==
    IF bad_category(line) # "none" THEN TRUE
    ELSE ~line.has_MD

\* the value of badRead after the filter; dup is the duplex argument
badRead(line, dup) ==
    IF bad_category(line) # "none" THEN TRUE
    ELSE IF ~dup THEN ~line.has_MD
    ELSE FALSE

\* the combined cigar in arrival order
softclip_of_arrival(pair) ==
    IF which_ori_strand(pair[1].flag) = ERROR \/ which_read(pair[1].flag) = ERROR
    THEN ERROR
    ELSE pair[1].cigarstring \o <<US>> \o pair[2].cigarstring

\* the combined cigar of a completed pair, ERROR when a flag lookup raises
softclip_of(pair) ==
    LET ori_strand == which_ori_strand(pair[1].flag)
        read_num   == which_read(pair[1].flag)
    IN  IF ori_strand = ERROR \/ read_num = ERROR THEN ERROR
        ELSE IF (ori_strand = "pos" /\ read_num = <<"R", "1">>) \/
                (ori_strand = "neg" /\ read_num = <<"R", "2">>)
        THEN pair[1].cigarstring \o <<US>> \o pair[2].cigarstring
        ELSE pair[2].cigarstring \o <<US>> \o pair[1].cigarstring

\* the molecular barcode of a read
barcode_of(read, dup) ==
    IF ~dup THEN split(read.qname, "|")[2]
    ELSE split(read.qname, US)[1]

\* a tag registered only when its consensus tag is new
register_first_only(pd, consensus_tag, tag) ==
    IF consensus_tag \notin DOMAIN pd THEN put(pd, consensus_tag, <<tag>>)
    ELSE pd

\* a tag dropped when its consensus tag already holds two
register_max2(pd, consensus_tag, tag) ==
    IF consensus_tag \notin DOMAIN pd THEN put(pd, consensus_tag, <<tag>>)
    ELSE IF Len(pd[consensus_tag]) >= 2 THEN pd
    ELSE put(pd, consensus_tag, Append(pd[consensus_tag], tag))

\* pair_dict after a new tag is registered under its consensus tag
register(pd, consensus_tag, tag) ==
    IF consensus_tag \notin DOMAIN pd THEN put(pd, consensus_tag, <<tag>>)
    ELSE put(pd, consensus_tag, Append(pd[consensus_tag], tag))

\* the read put in front of its family
family_prepend(family, read) == <<read>> \o family

\* read_dict[tag].append(read)
family_append(family, read) == Append(family, read)

\* the except KeyError branch without its counter -= 1
pair_already_written_counted(m) == m

\* the except KeyError branch: counter -= 1, then continue
pair_already_written(m) == [m EXCEPT !.counter = @ - 1]

\* add_read without the "read not in read_dict[tag]" test
add_read_append_always(m, read, softclip, dup) ==
    IF m.raised # "none" THEN m
    ELSE IF which_read(read.flag) = ERROR THEN [m EXCEPT !.raised = ERROR]
    ELSE
    LET barcode       == barcode_of(read, dup)
        tag           == build_tag(barcode, read, softclip)
        consensus_tag == sscs_qname(tag, read.flag)
        incr          == put(m.tag_dict, tag, get_default(m.tag_dict, tag, 0) + 1)
    IN  IF tag \notin DOMAIN m.read_dict /\ tag \notin DOMAIN m.tag_dict
        THEN [m EXCEPT !.read_dict = put(@, tag, <<read>>),
                       !.pair_dict = register(@, consensus_tag, tag),
                       !.tag_dict  = incr]
        ELSE IF tag \in DOMAIN m.read_dict
        THEN [m EXCEPT !.read_dict = put(@, tag, family_append(@[tag], read)),
                       !.tag_dict  = incr]
        ELSE pair_already_written(m)

\* add_read with the registration in pair_dict moved out of the
\* "tag not in read_dict" branch
add_read_register_always(m, read, softclip, dup) ==
    IF m.raised # "none" THEN m
    ELSE IF which_read(read.flag) = ERROR THEN [m EXCEPT !.raised = ERROR]
    ELSE
    LET barcode       == barcode_of(read, dup)
        tag           == build_tag(barcode, read, softclip)
        consensus_tag == sscs_qname(tag, read.flag)
        incr          == put(m.tag_dict, tag, get_default(m.tag_dict, tag, 0) + 1)
        registered    == [m EXCEPT !.pair_dict = register(@, consensus_tag, tag)]
    IN  IF tag \notin DOMAIN m.read_dict /\ tag \notin DOMAIN m.tag_dict
        THEN [registered EXCEPT !.read_dict = put(@, tag, <<read>>),
                                !.tag_dict  = incr]
        ELSE IF tag \in DOMAIN m.read_dict
        THEN IF ~in_list(read, m.read_dict[tag])
             THEN [registered EXCEPT !.read_dict = put(@, tag, family_append(@[tag], read)),
                                     !.tag_dict  = incr]
             ELSE [registered EXCEPT !.tag_dict = incr]
        ELSE pair_already_written(m)

\* one iteration of "for read in read_pair_dict[line.qname]" on the maps
\* m = [read_dict, tag_dict, pair_dict, counter, raised]
add_read(m, read, softclip, dup) ==
    IF m.raised # "none" THEN m
    ELSE IF which_read(read.flag) = ERROR THEN [m EXCEPT !.raised = ERROR]
    ELSE
    LET barcode       == barcode_of(read, dup)
        tag           == build_tag(barcode, read, softclip)
        consensus_tag == sscs_qname(tag, read.flag)
        incr          == put(m.tag_dict, tag, get_default(m.tag_dict, tag, 0) + 1)
    IN  IF tag \notin DOMAIN m.read_dict /\ tag \notin DOMAIN m.tag_dict
        THEN [m EXCEPT !.read_dict = put(@, tag, <<read>>),
                       !.pair_dict = register(@, consensus_tag, tag),
                       !.tag_dict  = incr]
        ELSE IF tag \in DOMAIN m.read_dict
        THEN IF ~in_list(read, m.read_dict[tag])
             THEN [m EXCEPT !.read_dict = put(@, tag, family_append(@[tag], read)),
                            !.tag_dict  = incr]
             ELSE [m EXCEPT !.tag_dict = incr]
        ELSE \* KeyError: tag counted but its family already written
             pair_already_written(m)

\* the maps after a completed pair is dispatched
dispatch(m, pair, dup) ==
    LET softclip == softclip_of(pair)
    IN  IF softclip = ERROR THEN [m EXCEPT !.raised = ERROR]
        ELSE add_read(add_read(m, pair[1], softclip, dup), pair[2], softclip, dup)

\* the record put in front of the file
write_front(sink, line) == <<line>> \o sink

\* counter after a record already buffered, the decrement left out
counter_after_duplicate_kept(c) == c + 1

\* badRead_bam.write(line)
write(sink, line) == Append(sink, line)

\* counter after a record already buffered: counter += 1, then counter -= 1
counter_after_duplicate(c) == (c + 1) - 1

\* the completed pair left in the buffer
buffer_after_no_pop(rpd, qname, pair, exception) == put(rpd, qname, pair)

\* read_pair_dict after line was appended to its query name's list: the
\* entry is popped once the pair is dispatched, and is left holding the
\* pair when the dispatch raised
buffer_after(rpd, qname, pair, exception) ==
    IF Len(pair) = 2 /\ exception = "none" THEN pop(rpd, qname)
    ELSE put(rpd, qname, pair)

\* a tag as the docstring of sscs_qname writes it: no cigar field
docstring_tag(barcode, read) ==
    LET readNum == which_read(read.flag)
        strand  == IF is_reverse(read) THEN <<"r", "e", "v">>
                   ELSE <<"f", "w", "d">>
    IN  join(<<barcode, str(read.reference_id), str(read.reference_start),
               str(read.next_reference_id), str(read.next_reference_start),
               strand, readNum>>, US)

VARIABLES
    mol,            \* the molecule handed to sscs_qname (SpecQname)
    ctag,           \* what the flag tables and sscs_qname returned for it
    duplex,         \* read_bam's duplex argument
    stream,         \* the records read from bamLines so far
    read_dict, tag_dict, pair_dict, read_pair_dict,
    badRead_bam,    \* the records written to the bad-read file
    counter, unmapped, unmapped_flag, bad_reads,
    raised          \* "none", or the exception that ended read_bam

vars == <<mol, ctag, duplex, stream, read_dict, tag_dict, pair_dict,
          read_pair_dict, badRead_bam, counter, unmapped, unmapped_flag,
          bad_reads, raised>>

bam_vars == <<duplex, stream, read_dict, tag_dict, pair_dict, read_pair_dict,
              badRead_bam, counter, unmapped, unmapped_flag, bad_reads, raised>>

\* ------------------------------------------------------------------ inputs
AlignedSegment(qname, flag, rid, rstart, nrid, nstart, cigar, md) ==
    [qname |-> qname, flag |-> flag, reference_id |-> rid,
     reference_start |-> rstart, next_reference_id |-> nrid,
     next_reference_start |-> nstart, cigarstring |-> cigar, has_MD |-> md]

qname1 == <<"A", "_", "x", "|", "A">>
qname2 == <<"A", "_", "y", "|", "A">>
cigarM == <<"9", "M">>
cigarS == <<"2", "S", "7", "M">>

\* the records a stream is drawn from: a pos-strand pair (99, 147) under one
\* query name and a neg-strand pair (83, 163) under another, a read (67)
\* that shares the raw tag of the 99 read, a read without MD, one read per
\* filter category and an unlisted flag
Reads ==
    { AlignedSegment(qname1, 99, 1, 1, 1, 2, cigarM, TRUE),
      AlignedSegment(qname1, 147, 1, 2, 1, 1, cigarS, TRUE),
      AlignedSegment(qname2, 83, 1, 2, 1, 1, cigarM, TRUE),
      AlignedSegment(qname2, 163, 1, 1, 1, 2, cigarS, TRUE),
      AlignedSegment(qname2, 67, 1, 1, 1, 2, cigarM, TRUE),
      AlignedSegment(qname1, 99, 1, 1, 1, 2, cigarM, FALSE),
      AlignedSegment(qname1, 69, 1, 1, 1, 1, cigarM, TRUE),
      AlignedSegment(qname1, 73, 1, 1, 1, 1, cigarM, TRUE),
      AlignedSegment(qname1, 355, 1, 1, 1, 2, cigarM, TRUE),
      AlignedSegment(qname1, 2147, 1, 1, 1, 2, cigarM, TRUE),
      AlignedSegment(qname1, 0, 1, 1, 1, 2, cigarM, TRUE) }

Chrs == 1..MaxChr
Positions == (1..MaxPos) \cup {10}
Barcodes == {<<"A", "C">>}
Softclips == {cigarM \o <<US>> \o cigarS}

\* the same-orientation example of the docstring: ATGT, flags 65 and 129,
\* R1 at the higher start
Example65 ==
    [barcode |-> <<"A", "T", "G", "T">>, softclip |-> <<>>, f1 |-> 65,
     chrA |-> 1, posA |-> 249239818, chrB |-> 1, posB |-> 10060]

Molecules ==
    [barcode : Barcodes, softclip : Softclips, f1 : DOMAIN flag_pairings,
     chrA : Chrs, posA : Positions, chrB : Chrs, posB : Positions]
    \cup {Example65}

NoMol == [barcode |-> <<>>, softclip |-> <<>>, f1 |-> 0,
          chrA |-> 0, posA |-> 0, chrB |-> 0, posB |-> 0]
NoTag == [m1 |-> <<>>, m2 |-> <<>>, tag1 |-> <<>>, tag2 |-> <<>>,
          pair |-> 0, pair_back |-> 0, read |-> <<>>, mate_read |-> <<>>,
          ori_strand |-> "", mate_ori_strand |-> ""]

\* the two mates of a molecule as reads: mate 1 at locus A with flag f1,
\* mate 2 at locus B with the paired flag
mate1(m) == AlignedSegment(<<>>, m.f1, m.chrA, m.posA, m.chrB, m.posB, <<>>, TRUE)
mate2(m) == AlignedSegment(<<>>, flag_pairings[m.f1], m.chrB, m.posB,
                           m.chrA, m.posA, <<>>, TRUE)

\* ------------------------------------------------------------------- states
BamInit ==
    /\ stream = <<>>
    /\ read_dict = <<>> /\ tag_dict = <<>> /\ pair_dict = <<>>
    /\ read_pair_dict = <<>>
    /\ badRead_bam = <<>>
    /\ counter = 0 /\ unmapped = 0 /\ unmapped_flag = 0 /\ bad_reads = 0
    /\ raised = "none"

Init ==
    /\ mol = NoMol /\ ctag = NoTag
    /\ duplex \in BOOLEAN
    /\ BamInit

\* one iteration of "for line in bamLines"
ReadLine(line) ==
    /\ raised = "none"
    /\ Len(stream) < MaxRecords
    /\ stream' = Append(stream, line)
    /\ UNCHANGED <<mol, ctag, duplex>>
    /\ IF badRead(line, duplex)
       THEN /\ badRead_bam' = write(badRead_bam, line)
            /\ counter' = counter + 1
            /\ unmapped' = unmapped + (IF bad_category(line) = "unmapped" THEN 1 ELSE 0)
            /\ bad_reads' = bad_reads + (IF bad_category(line) = "bad_reads" THEN 1 ELSE 0)
            /\ unmapped_flag' = unmapped_flag +
                                (IF bad_category(line) = "unmapped_flag" THEN 1 ELSE 0)
            /\ UNCHANGED <<read_dict, tag_dict, pair_dict, read_pair_dict, raised>>
       ELSE /\ UNCHANGED <<badRead_bam, unmapped, bad_reads, unmapped_flag>>
            /\ LET buffered == get_default(read_pair_dict, line.qname, <<>>)
               IN  IF in_list(line, buffered)
                   THEN /\ counter' = counter_after_duplicate(counter)
                        /\ read_pair_dict' = put(read_pair_dict, line.qname, buffered)
                        /\ UNCHANGED <<read_dict, tag_dict, pair_dict, raised>>
                   ELSE LET pair == Append(buffered, line)
                        IN  IF Len(pair) = 2
                            THEN LET m == dispatch([read_dict |-> read_dict,
                                                    tag_dict  |-> tag_dict,
                                                    pair_dict |-> pair_dict,
                                                    counter   |-> counter + 1,
                                                    raised    |-> "none"],
                                                   pair, duplex)
                                 IN  /\ read_dict' = m.read_dict
                                     /\ tag_dict' = m.tag_dict
                                     /\ pair_dict' = m.pair_dict
                                     /\ counter' = m.counter
                                     /\ raised' = m.raised
                                     /\ read_pair_dict' =
                                          buffer_after(read_pair_dict, line.qname,
                                                       pair, m.raised)
                            ELSE /\ read_pair_dict' =
                                          buffer_after(read_pair_dict, line.qname,
                                                       pair, "none")
                                 /\ counter' = counter + 1
                                 /\ UNCHANGED <<read_dict, tag_dict, pair_dict, raised>>

Next == \E line \in Reads : ReadLine(line)

Spec == Init /\ [][Next]_vars

\* --------------------------------------- read_bam on maps of an earlier call
\* read_bam is called once per section of the input with the maps of the
\* sections before it.  The earlier section here dispatched the 99/147 pair.
EmptyMaps ==
    [read_dict |-> <<>>, tag_dict |-> <<>>, pair_dict |-> <<>>,
     counter |-> 0, raised |-> "none"]

EarlierPair ==
    << AlignedSegment(qname1, 99, 1, 1, 1, 2, cigarM, TRUE),
       AlignedSegment(qname1, 147, 1, 2, 1, 1, cigarS, TRUE) >>

earlier_maps(dup) == dispatch(EmptyMaps, EarlierPair, dup)

\* the caller wrote the families of tags out and removed them from
\* read_dict; their counts stay in tag_dict
flushed(m, tags) ==
    [m EXCEPT !.read_dict = [t \in (DOMAIN @) \ tags |-> @[t]]]

\* the caller kept pair_dict only and starts the section with a new
\* read_dict and tag_dict
retained_pairs(m) == [m EXCEPT !.read_dict = <<>>, !.tag_dict = <<>>]

HandedOver(dup) ==
    {flushed(earlier_maps(dup), tags) :
        tags \in SUBSET (DOMAIN earlier_maps(dup).read_dict)}
    \cup {retained_pairs(earlier_maps(dup))}

PartitionReads ==
    { AlignedSegment(qname1, 99, 1, 1, 1, 2, cigarM, TRUE),
      AlignedSegment(qname1, 147, 1, 2, 1, 1, cigarS, TRUE),
      AlignedSegment(qname2, 83, 1, 2, 1, 1, cigarM, TRUE),
      AlignedSegment(qname2, 163, 1, 1, 1, 2, cigarS, TRUE),
      AlignedSegment(qname2, 67, 1, 1, 1, 2, cigarM, TRUE) }

PartitionInit ==
    /\ mol = NoMol /\ ctag = NoTag
    /\ duplex \in BOOLEAN
    /\ \E m \in HandedOver(duplex) :
          /\ read_dict = m.read_dict
          /\ tag_dict = m.tag_dict
          /\ pair_dict = m.pair_dict
    /\ stream = <<>>
    /\ read_pair_dict = <<>>
    /\ badRead_bam = <<>>
    /\ counter = 0 /\ unmapped = 0 /\ unmapped_flag = 0 /\ bad_reads = 0
    /\ raised = "none"

PartitionNext == \E line \in PartitionReads : ReadLine(line)

SpecPartition == PartitionInit /\ [][PartitionNext]_vars

\* ------------------------------------------- sscs_qname on both mates' tags
QnameInit ==
    /\ mol \in Molecules /\ ctag = NoTag
    /\ duplex = FALSE
    /\ BamInit

Canonicalize ==
    /\ ctag = NoTag
    /\ LET r1   == mate1(mol)
           r2   == mate2(mol)
           tag1 == IF mol.softclip = <<>> THEN docstring_tag(mol.barcode, r1)
                   ELSE build_tag(mol.barcode, r1, mol.softclip)
           tag2 == IF mol.softclip = <<>> THEN docstring_tag(mol.barcode, r2)
                   ELSE build_tag(mol.barcode, r2, mol.softclip)
       IN  ctag' = [m1 |-> sscs_qname(tag1, r1.flag),
                    m2 |-> sscs_qname(tag2, r2.flag),
                    tag1 |-> tag1, tag2 |-> tag2,
                    pair |-> r2.flag,
                    pair_back |-> flag_pairings[r2.flag],
                    read |-> which_read(r1.flag),
                    mate_read |-> which_read(r2.flag),
                    ori_strand |-> which_ori_strand(r1.flag),
                    mate_ori_strand |-> which_ori_strand(r2.flag)]
    /\ UNCHANGED <<mol, bam_vars>>

QnameNext == Canonicalize

SpecQname == QnameInit /\ [][QnameNext]_vars

\* =================================================================== claims
ends_with(s, suffix) ==
    Len(s) >= Len(suffix) /\ SubSeq(s, Len(s) - Len(suffix) + 1, Len(s)) = suffix

min_flag(f) == IF f < flag_pairings[f] THEN f ELSE flag_pairings[f]
max_flag(f) == IF f < flag_pairings[f] THEN flag_pairings[f] ELSE f

\* the four locus fields of a tag as integers
loci(tag) ==
    LET f == split(tag, US) IN <<int(f[2]), int(f[3]), int(f[4]), int(f[5])>>

\* the strand label of a consensus tag: the third field from the end
label(consensus_tag) ==
    LET f == split(consensus_tag, US) IN f[Len(f) - 2]

\* the swap rule as the specification states it
rule_swaps(refChr, refStart, mateChr, mateStart) ==
    \/ (refChr = mateChr /\ refStart > mateStart)
    \/ (refChr # mateChr /\ refChr > mateChr)

canonical_loci(refChr, refStart, mateChr, mateStart) ==
    IF rule_swaps(refChr, refStart, mateChr, mateStart)
    THEN <<mateChr, mateStart, refChr, refStart>>
    ELSE <<refChr, refStart, mateChr, mateStart>>

\* C1: canonicalization symmetry. The raw tag of mate 1 canonicalized with
\* f1 and the raw tag of mate 2 canonicalized with paired_flag(f1) are the
\* same consensus tag, for every proper flag and every pair of loci.
C1_CanonicalizationSymmetry ==
    ctag # NoTag => ctag.m1 = ctag.m2

\* C2: coordinate canonicalization. The loci of the consensus tag are
\* ordered low to high (first chromosome smaller, or equal chromosomes and
\* first start <= second start), the swap is applied exactly when the
\* coordinate rule says so, and the rule applied to the output swaps nothing.
C2_CoordinateCanonicalization ==
    ctag # NoTag =>
        LET out1 == loci(ctag.m1)
            out2 == loci(ctag.m2)
            ordered(l) == l[1] < l[3] \/ (l[1] = l[3] /\ l[2] <= l[4])
        IN  /\ ordered(out1) /\ ordered(out2)
            /\ out1 = canonical_loci(mol.chrA, mol.posA, mol.chrB, mol.posB)
            /\ out2 = canonical_loci(mol.chrB, mol.posB, mol.chrA, mol.posA)
            /\ ~rule_swaps(out1[1], out1[2], out1[3], out1[4])
            /\ ~rule_swaps(out2[1], out2[2], out2[3], out2[4])

\* C3: flag-pair ordering. Whichever flag of a pair is the input, the
\* consensus tag ends with _<smaller flag>_<larger flag>, so both mates get
\* the same two-flag suffix.
C3_FlagPairOrdering ==
    ctag # NoTag =>
        LET suffix == <<US>> \o str(min_flag(mol.f1)) \o <<US>> \o str(max_flag(mol.f1))
        IN  /\ min_flag(mol.f1) < max_flag(mol.f1)
            /\ {min_flag(mol.f1), max_flag(mol.f1)} = {mol.f1, ctag.pair}
            /\ ends_with(ctag.m1, suffix)
            /\ ends_with(ctag.m2, suffix)

\* sscs_qname was given the larger flag of a pair and put the smaller first
C3_Witness ==
    /\ ctag # NoTag /\ mol.f1 = 147
    /\ ends_with(ctag.m1, <<"_", "9", "9", "_", "1", "4", "7">>)

AllFlags == 0..4095
ProperFlags == {f \in AllFlags : which_read(f) # ERROR}

\* C4: flag pairing. Over the 16 proper flags flag_pairings is an
\* involution, a flag and its pairing are one R1 and one R2 of the same
\* originating strand, and which_read, which_ori_strand and flag_pairings
\* are defined on exactly the same 16 flags.
C4_FlagPairing ==
    /\ Cardinality(ProperFlags) = 16
    /\ ProperFlags = DOMAIN flag_pairings
    /\ ProperFlags = {f \in AllFlags : which_ori_strand(f) # ERROR}
    /\ ctag # NoTag =>
        /\ ctag.pair_back = mol.f1
        /\ {ctag.read, ctag.mate_read} = {<<"R", "1">>, <<"R", "2">>}
        /\ ctag.ori_strand \in {"pos", "neg"}
        /\ ctag.ori_strand = ctag.mate_ori_strand

\* the tables were applied to a translocation flag and its pairing
C4_Witness ==
    /\ ctag # NoTag /\ mol.f1 = 161
    /\ ctag.pair = 81 /\ ctag.read = <<"R", "2">> /\ ctag.ori_strand = "pos"

\* C5: family integrity. After any sequence of records, for every raw
\* family tag in read_dict the count tag_dict[tag] equals len(read_dict[tag]).
C5_FamilyIntegrity ==
    \A tag \in DOMAIN read_dict :
        tag \in DOMAIN tag_dict /\ tag_dict[tag] = Len(read_dict[tag])

distinct(lst) == \A i, j \in 1..Len(lst) : lst[i] = lst[j] => i = j

\* C6: PairGroup bound. Every consensus tag of pair_dict maps to at most 2
\* raw family tags, all distinct.
C6_PairGroupBound ==
    \A c \in DOMAIN pair_dict :
        Len(pair_dict[c]) <= 2 /\ distinct(pair_dict[c])

\* a consensus tag holds both mates' tags, and a second pair of the same
\* molecule was dispatched into the same families
C6_Witness ==
    /\ \E c \in DOMAIN pair_dict : Len(pair_dict[c]) = 2
    /\ \E tag \in DOMAIN read_dict : Len(read_dict[tag]) = 2

\* the record read in the current step, and the classification of the
\* specification: unmapped, secondary, supplementary, blacklisted flag, or
\* (single-strand mode only) no MD tag
last_line == stream'[Len(stream')]
filterable(line) ==
    \/ is_unmapped(line) \/ is_secondary(line) \/ is_supplementary(line)
    \/ in_list(line.flag, bad_flags)
    \/ (~duplex /\ ~line.has_MD)

in_buffer(line, rpd) == \E q \in DOMAIN rpd : in_list(line, rpd[q])
in_family(line, rd) == \E tag \in DOMAIN rd : in_list(line, rd[tag])

C7_BufferBound ==
    \A q \in DOMAIN read_pair_dict :
        /\ Len(read_pair_dict[q]) \in 1..2
        /\ raised = "none" => Len(read_pair_dict[q]) = 1

C7_Step ==
    LET q      == last_line.qname
        before == get_default(read_pair_dict, q, <<>>)
    IN  /\ \A o \in (DOMAIN read_pair_dict \cup DOMAIN read_pair_dict') \ {q} :
              /\ o \in DOMAIN read_pair_dict /\ o \in DOMAIN read_pair_dict'
              /\ read_pair_dict'[o] = read_pair_dict[o]
        /\ ~filterable(last_line) =>
              /\ before = <<>> =>
                    q \in DOMAIN read_pair_dict' /\ read_pair_dict'[q] = <<last_line>>
              /\ (Len(before) = 1 /\ before[1] # last_line /\ raised' = "none") =>
                    q \notin DOMAIN read_pair_dict'

C8_Step ==
    /\ filterable(last_line) <=> badRead_bam' = Append(badRead_bam, last_line)
    /\ filterable(last_line) =>
          UNCHANGED <<read_pair_dict, read_dict, tag_dict, pair_dict>>
    /\ ~filterable(last_line) =>
          /\ badRead_bam' = badRead_bam
          /\ \/ in_buffer(last_line, read_pair_dict')
             \/ in_family(last_line, read_dict')

\* C8: read classification. A record is written to the bad-read sink, and
\* leaves the mate buffer and the three maps untouched, if and only if it is
\* unmapped, secondary, supplementary, has one of the 14 blacklisted flags,
\* or (single-strand mode only) has no MD tag; any other record, a read
\* without MD in duplex mode included, is not written to the sink and is in
\* the mate buffer or in a family after its step.
C8_ReadClassification == Len(bad_flags) = 14 /\ [][C8_Step]_vars

\* in duplex mode a read without MD was buffered, after a filtered record
\* went to the sink
C8_Witness ==
    /\ duplex
    /\ Len(badRead_bam) = 1
    /\ \E q \in DOMAIN read_pair_dict :
          \E i \in 1..Len(read_pair_dict[q]) : ~read_pair_dict[q][i].has_MD

\* a mapped, primary read whose flag is in neither flag table
unrecognized(line) ==
    /\ ~is_unmapped(line) /\ ~is_secondary(line) /\ ~is_supplementary(line)
    /\ ~in_list(line.flag, bad_flags)
    /\ which_read(line.flag) = ERROR

\* C9: unrecognized flag handling. read_bam never raises; every mapped,
\* primary record read so far whose flag is neither proper nor blacklisted
\* is in the bad-read sink and is neither buffered nor in a family.
C9_UnrecognizedFlagToSink ==
    /\ raised = "none"
    /\ \A i \in 1..Len(stream) :
          unrecognized(stream[i]) =>
              /\ in_list(stream[i], badRead_bam)
              /\ ~in_buffer(stream[i], read_pair_dict)
              /\ ~in_family(stream[i], read_dict)

\* C10: degenerate-coordinate strand resolution. For both mates at the same
\* chromosome and start, the strand label of the consensus tag is the
\* originating strand which_ori_strand gives for the flag.
C10_DegenerateStrand ==
    (ctag # NoTag /\ mol.chrA = mol.chrB /\ mol.posA = mol.posB) =>
        /\ label(ctag.m1) = <<"p", "o", "s">> <=> ctag.ori_strand = "pos"
        /\ label(ctag.m1) = <<"n", "e", "g">> <=> ctag.ori_strand = "neg"
        /\ label(ctag.m2) = <<"p", "o", "s">> <=> ctag.mate_ori_strand = "pos"
        /\ label(ctag.m2) = <<"n", "e", "g">> <=> ctag.mate_ori_strand = "neg"

\* C11: bad-read sink ordering. The records written to badRead_bam are
\* exactly the records of the stream classified as bad, in input order, each
\* written once.
C11_SinkOrder == badRead_bam = SelectSeq(stream, filterable)

\* two different bad records were written around a good one
C11_Witness ==
    /\ Len(stream) = 3 /\ Len(badRead_bam) = 2
    /\ badRead_bam = <<stream[1], stream[3]>>
    /\ stream[1] # stream[3]

\* the mate role of a raw tag: its last field
role(tag) == LET f == split(tag, US) IN f[Len(f)]

\* the label sscs_qname gives a raw tag whose loci differ: by swap and role
C12_Mate(tag, consensus_tag) ==
    LET in      == loci(tag)
        out     == loci(consensus_tag)
        swapped == <<in[3], in[4], in[1], in[2]>>
        R1      == role(tag) = <<"R", "1">>
    IN  in # swapped =>
            \/ /\ out = swapped
               /\ label(consensus_tag) =
                     IF R1 THEN <<"n", "e", "g">> ELSE <<"p", "o", "s">>
            \/ /\ out = in
               /\ label(consensus_tag) =
                     IF R1 THEN <<"p", "o", "s">> ELSE <<"n", "e", "g">>

cigars(tag) == LET f == split(tag, US) IN <<f[6], f[7]>>

C13_Step ==
    LET q      == last_line.qname
        before == get_default(read_pair_dict, q, <<>>)
    IN  (/\ ~filterable(last_line)
         /\ Len(before) = 1 /\ before[1] # last_line
         /\ before[1].flag \in DOMAIN flag_pairings
         /\ last_line.flag = flag_pairings[before[1].flag]) =>
            LET a  == before[1]
                b  == last_line
                r1 == IF which_read(a.flag) = <<"R", "1">> THEN a ELSE b
                r2 == IF which_read(a.flag) = <<"R", "1">> THEN b ELSE a
                expected == IF which_ori_strand(a.flag) = "pos"
                            THEN <<r1.cigarstring, r2.cigarstring>>
                            ELSE <<r2.cigarstring, r1.cigarstring>>
            IN  \A x \in {a, b} :
                    \E tag \in DOMAIN read_dict' :
                        /\ in_list(x, read_dict'[tag])
                        /\ cigars(tag) = expected

\* C13: combined CIGAR is arrival-order independent. When a pair with flags
\* f and paired_flag(f) is dispatched, both mates' raw tags carry R1's cigar
\* then R2's cigar if the originating strand is pos, and R2's then R1's if it
\* is neg, whichever mate was buffered first.
C13_CombinedCigar == [][C13_Step]_vars

\* a neg-strand pair was dispatched with R2 (163) read before R1 (83)
C13_Witness ==
    /\ Len(stream) = 2 /\ stream[1].flag = 163 /\ stream[2].flag = 83
    /\ \E tag \in DOMAIN read_dict :
          in_list(stream[2], read_dict[tag]) /\ cigars(tag) = <<cigarS, cigarM>>

C14_Step ==
    LET before == get_default(read_pair_dict, last_line.qname, <<>>)
    IN  (~filterable(last_line) /\ in_list(last_line, before)) =>
            UNCHANGED <<read_pair_dict, read_dict, tag_dict, pair_dict,
                        counter, badRead_bam, raised>>

\* C14: duplicate record. A good record equal to the read buffered under
\* its query name is discarded: mate buffer, read_dict, tag_dict and
\* pair_dict are unchanged, nothing is dispatched, and counter has the value
\* it had before the record was read.
C14_DuplicateRecord == [][C14_Step]_vars

\* the same good record was read twice in a row and counted once
C14_Witness ==
    /\ Len(stream) = 2 /\ stream[1] = stream[2]
    /\ ~filterable(stream[1])
    /\ counter = 1
    /\ read_pair_dict = (stream[1].qname :> <<stream[1]>>)

\* the raw tag read_bam gives read x of a completed pair
tag_in_pair(x, pair) == build_tag(barcode_of(x, duplex), x, softclip_of(pair))

\* x's tag is counted in tag_dict and has no family in read_dict
orphan(x, pair) ==
    /\ tag_in_pair(x, pair) \in DOMAIN tag_dict
    /\ tag_in_pair(x, pair) \notin DOMAIN read_dict

\* the number of times tag is registered in pd
registrations(pd, tag) ==
    Cardinality({p \in UNION {{c} \X (1..Len(pd[c])) : c \in DOMAIN pd} :
                    pd[p[1]][p[2]] = tag})

C15_Step ==
    LET q      == last_line.qname
        before == get_default(read_pair_dict, q, <<>>)
        pair   == Append(before, last_line)
        n      == Cardinality({i \in 1..2 : orphan(pair[i], pair)})
    IN  (Len(before) = 1 /\ before[1] # last_line /\ n > 0) =>
            /\ raised' = "none"
            /\ counter' = (counter + 1) - n
            /\ q \notin DOMAIN read_pair_dict'
            /\ \A i \in 1..2 :
                  LET tag == tag_in_pair(pair[i], pair)
                  IN  IF orphan(pair[i], pair)
                      THEN /\ tag \notin DOMAIN read_dict'
                           /\ tag_dict'[tag] = tag_dict[tag]
                           /\ registrations(pair_dict', tag) =
                                 registrations(pair_dict, tag)
                      ELSE /\ tag \in DOMAIN read_dict'
                           /\ in_list(pair[i], read_dict'[tag])
                           /\ tag_dict'[tag] = get_default(tag_dict, tag, 0) + 1

\* C15: cross-partition orphan. When a dispatched read's raw tag is in
\* tag_dict and not in read_dict, read_bam does not raise: the read is
\* skipped with read_dict, tag_dict[tag] and pair_dict unchanged for its
\* tag, counter is decremented by one for it, the other mate is still
\* processed, and the query name's buffer entry is removed.
C15_CrossPartitionOrphan == [][C15_Step]_vars

\* the 67 read's family was flushed by the caller: the read was skipped and
\* not counted, and its mate (163) started a family
C15_Witness ==
    /\ Len(stream) = 2 /\ stream[1].flag = 67 /\ stream[2].flag = 163
    /\ counter = 1 /\ raised = "none" /\ read_pair_dict = <<>>
    /\ ~in_family(stream[1], read_dict)
    /\ in_family(stream[2], read_dict)
    /\ \E tag \in DOMAIN tag_dict : tag \notin DOMAIN read_dict /\ tag_dict[tag] = 1

is_prefix(s, t) == Len(s) <= Len(t) /\ SubSeq(t, 1, Len(s)) = s

C18_Step ==
    /\ \A c \in DOMAIN pair_dict :
          c \in DOMAIN pair_dict' /\ is_prefix(pair_dict[c], pair_dict'[c])
    /\ \A tag \in (DOMAIN read_dict') \ (DOMAIN read_dict) :
          registrations(pair_dict', tag) = registrations(pair_dict, tag) + 1

current_pair ==
    Append(get_default(read_pair_dict, last_line.qname, <<>>), last_line)

C16_Step ==
    /\ \A tag \in DOMAIN read_dict :
          /\ tag \in DOMAIN read_dict'
          /\ is_prefix(read_dict[tag], read_dict'[tag])
          /\ \A i \in (Len(read_dict[tag]) + 1)..Len(read_dict'[tag]) :
                in_list(read_dict'[tag][i], current_pair)
    /\ \A tag \in (DOMAIN read_dict') \ (DOMAIN read_dict) :
          /\ Len(read_dict'[tag]) >= 1
          /\ \A i \in 1..Len(read_dict'[tag]) :
                in_list(read_dict'[tag][i], current_pair)

\* C16: family growth is append-only. A new raw tag's family starts as the
\* dispatched read(s); a read with a seen tag is appended at the end; every
\* family of a state is a prefix of the same family in the next state, and
\* no key of read_dict is deleted.
C16_FamilyAppendOnly == [][C16_Step]_vars

\* the 67 read was appended behind the 99 read in the family they share
C16_Witness ==
    raised = "none" /\ \E tag \in DOMAIN read_dict :
        /\ Len(read_dict[tag]) = 2
        /\ read_dict[tag][1].flag = 99 /\ read_dict[tag][2].flag = 67

\* C17: filtered reads are counted. The number of records written to the
\* bad-read sink equals unmapped + bad_reads + unmapped_flag.
C17_FilteredCounted ==
    Len(badRead_bam) = unmapped + bad_reads + unmapped_flag

\* C19: the documented same-orientation example. The raw tags
\* ATGT_1_249239818_1_10060_fwd_R1 (flag 65) and
\* ATGT_1_10060_1_249239818_fwd_R2 (flag 129) both canonicalize to
\* ATGT_1_10060_1_249239818_pos_65_129.
C19_DocumentedExample ==
    (ctag # NoTag /\ mol = Example65) =>
        /\ ctag.m1 = <<"A", "T", "G", "T", "_", "1", "_", "1", "0", "0", "6", "0",
                      "_", "1", "_", "2", "4", "9", "2", "3", "9", "8", "1", "8",
                      "_", "p", "o", "s", "_", "6", "5", "_", "1", "2", "9">>
        /\ ctag.m2 = <<"A", "T", "G", "T", "_", "1", "_", "1", "0", "0", "6", "0",
                      "_", "1", "_", "2", "4", "9", "2", "3", "9", "8", "1", "8",
                      "_", "p", "o", "s", "_", "6", "5", "_", "1", "2", "9">>

\* the tags of the example are the ones the docstring gives
C19_ExampleTags ==
    (ctag # NoTag /\ mol = Example65) =>
        /\ ctag.tag1 = <<"A", "T", "G", "T", "_", "1", "_", "2", "4", "9", "2", "3",
                        "9", "8", "1", "8", "_", "1", "_", "1", "0", "0", "6", "0",
                        "_", "f", "w", "d", "_", "R", "1">>
        /\ ctag.tag2 = <<"A", "T", "G", "T", "_", "1", "_", "1", "0", "0", "6", "0",
                        "_", "1", "_", "2", "4", "9", "2", "3", "9", "8", "1", "8",
                        "_", "f", "w", "d", "_", "R", "2">>

\* C20: each raw family tag is registered exactly once. Every key of
\* read_dict occurs exactly once in the PairGroup lists of pair_dict taken
\* together, and every tag listed in pair_dict is a key of read_dict.
C20_RegisteredOnce ==
    /\ \A tag \in DOMAIN read_dict : registrations(pair_dict, tag) = 1
    /\ \A c \in DOMAIN pair_dict :
          \A i \in 1..Len(pair_dict[c]) : pair_dict[c][i] \in DOMAIN read_dict

\* a family holds reads of flags 99 and 67, whose consensus tags differ, and
\* is registered once, under the consensus tag of the read that created it
C20_Witness ==
    raised = "none" /\ \E tag \in DOMAIN read_dict :
        /\ Len(read_dict[tag]) = 2
        /\ read_dict[tag][1].flag = 67 /\ read_dict[tag][2].flag = 99
        /\ registrations(pair_dict, tag) = 1
        /\ \E c \in DOMAIN pair_dict :
              in_list(tag, pair_dict[c]) /\ ends_with(c, <<"_", "6", "7", "_", "1", "3", "1">>)

\* the number of times x occurs in lst
occurrences(x, lst) == Cardinality({i \in 1..Len(lst) : lst[i] = x})

\* x is already in the family of the tag read_bam gives it in pair
present(x, pair) ==
    /\ tag_in_pair(x, pair) \in DOMAIN read_dict
    /\ in_list(x, read_dict[tag_in_pair(x, pair)])

C21_Step ==
    /\ \A tag \in DOMAIN read_dict' : distinct(read_dict'[tag])
    /\ LET q      == last_line.qname
           before == get_default(read_pair_dict, q, <<>>)
           pair   == Append(before, last_line)
       IN  ( /\ raised = "none" /\ ~filterable(last_line)
             /\ Len(before) = 1 /\ before[1] # last_line
             /\ \A i \in 1..2 : ~unrecognized(pair[i])
             /\ \E i \in 1..2 : present(pair[i], pair) ) =>
               /\ raised' = "none"
               /\ q \notin DOMAIN read_pair_dict'
               /\ \A i \in 1..2 :
                     LET tag == tag_in_pair(pair[i], pair)
                     IN  /\ tag \in DOMAIN read_dict'
                         /\ occurrences(pair[i], read_dict'[tag]) = 1
                         /\ present(pair[i], pair) =>
                               is_prefix(read_dict[tag], read_dict'[tag])

\* C21: no read is stored twice in a family. After any sequence of records,
\* also one that repeats a whole pair after it was dispatched, no list
\* read_dict[tag] holds two equal reads; a dispatched read that is already
\* in its family is not appended again and read_bam goes on: it does not
\* raise, the other mate is in its family once, and the buffer entry of the
\* query name is removed.
C21_NoReadTwice == [][C21_Step]_vars

\* the 99/147 pair was read and dispatched twice: each family holds its
\* read once
C21_Witness ==
    /\ Len(stream) = 4 /\ stream[1] = stream[3] /\ stream[2] = stream[4]
    /\ stream[1].flag = 99 /\ stream[2].flag = 147
    /\ raised = "none" /\ read_pair_dict = <<>>
    /\ Cardinality(DOMAIN read_dict) = 2
    /\ \A tag \in DOMAIN read_dict : Len(read_dict[tag]) = 1
    /\ in_family(stream[1], read_dict) /\ in_family(stream[2], read_dict)

====
